---- MODULE Spec2Model ----
(***************************************************************************)
(* Model of PVGeo/filters_general/voxelize.py: class VoxelizePoints.        *)
(*                                                                         *)
(* Numbers.  Coordinates are integers and spacings are even positive       *)
(* integers, so dx/2, TOLERANCE = min(dx,dy)/2 and every product the code  *)
(* forms are integers and the float arithmetic of the source is exact on   *)
(* them.  The one inexact step of the source, np.around(v/TOLERANCE), is   *)
(* computed on the exact quotient (round half to even).                    *)
(* Arrays.  The input sequences x, y, z are 1-based sequences; the arrays  *)
(* the code builds (all_nodes, ind_nodes, unique_nodes, the cells) are     *)
(* functions over 0..n-1, as the source indexes them.                      *)
(***************************************************************************)
EXTENDS Integers, Sequences, FiniteSets, TLC

\* The fields of the instance; last, the operation that has just run (for a
\* PointsToGrid call: its arguments, its outcome and the mesh it filled); memo,
\* the outcome of an earlier call that the caller has kept.
VARIABLES dx, dy, dz, estimateGrid, safe, angle, last, memo

vars == <<dx, dy, dz, estimateGrid, safe, angle, last, memo>>

\* self.__dx = None: spacings are positive, which leaves 0 to stand for None.
None == 0

\* self.__safe = 10.0
DefaultSafe == 10

\* ---------------------------------------------------------------- inputs
\* Longest enumerated point cloud.
MaxN == 2

\* Values handed to the delta setters and returned by the estimator.
DeltaVals == {2, 4}

\* Values handed to SetSafeSize.
SafeVals == {DefaultSafe}

\* (dx, dy, dz) arguments of SetDeltas.
ArgDeltas == {<<2, 2, 2>>, <<4, 4, 4>>}

\* (dx, dy, dz) arguments of a PointsToGrid call.
CallArgs == {<<4, 4, 4>>}

\* What the estimator may find: spacings and an angle in quarter turns.
Estimates == {[dx |-> 2, dy |-> 2, angle |-> 0], [dx |-> 4, dy |-> 2, angle |-> 1]}

\* Points the enumerated clouds are made of.
Points == {<<0, 0, 0>>, <<1, 0, 4>>}

RECURSIVE SeqsUpTo(_, _)
SeqsUpTo(S, n) ==
    IF n = 0 THEN {<<>>}
    ELSE LET shorter == SeqsUpTo(S, n - 1)
         IN  shorter \cup {Append(s, p) : s \in shorter, p \in S}

\* The 3 x 3 x 1 lattice spaced 2 in x and y, constant z (row-major).
Lattice == [k \in 1..9 |-> <<2 * ((k - 1) % 3), 2 * ((k - 1) \div 3), 0>>]

\* Nine pairwise distinct points within one tolerance cell of spacing 4.
Cluster == [k \in 1..9 |-> <<1 + ((k - 1) % 3), 1 + ((k - 1) \div 3), 0>>]

\* The enumerated clouds: every sequence of 1..MaxN of the points.
Clouds == SeqsUpTo(Points, MaxN) \ {<<>>}

Coord(pts, c) == [i \in 1..Len(pts) |-> pts[i][c]]

\* A sequence without its last element: the shorter of two unequal inputs.
Trim(s) == SubSeq(s, 1, Len(s) - 1)

\* ------------------------------------------------------- pure functions
Min(a, b) == IF a <= b THEN a ELSE b

\* np.around(n / d) for d > 0: the nearest integer, a tie going to the even one.
Around(n, d) ==
    LET q == n \div d
        r == n - q * d
    IN  IF 2 * r < d THEN q
        ELSE IF 2 * r > d THEN q + 1
        ELSE IF q % 2 = 0 THEN q ELSE q + 1

\* The signs of c_n1 .. c_n8: bottom (-x-y, +x-y, -x+y, +x+y), then top.
CornerSign ==
    [j \in 0..7 |->
        << IF j % 2 = 0 THEN -1 ELSE 1,
           IF (j \div 2) % 2 = 0 THEN -1 ELSE 1,
           IF j \div 4 = 0 THEN -1 ELSE 1 >>]

\* AllNodes with the top corners copied from the bottom ones, z - dz/2 kept.
AllNodesTopAsBottom(x, y, z, ddx, ddy, ddz) ==
    [k \in 0..(8 * Len(x) - 1) |->
        << x[(k % Len(x)) + 1] + CornerSign[k \div Len(x)][1] * (ddx \div 2),
           y[(k % Len(x)) + 1] + CornerSign[k \div Len(x)][2] * (ddy \div 2),
           z[(k % Len(x)) + 1] - (ddz \div 2) >>]

\* np.concatenate((c_n1, ..., c_n8)): corner-major, point-minor.
AllNodes(x, y, z, ddx, ddy, ddz) ==
    LET n == Len(x)
    IN  [k \in 0..(8 * n - 1) |->
            LET j == k \div n
                i == k % n
            IN  << x[i + 1] + CornerSign[j][1] * (ddx \div 2),
                   y[i + 1] + CornerSign[j][2] * (ddy \div 2),
                   z[i + 1] + CornerSign[j][3] * (ddz \div 2) >>]

\* TOLERANCE taken from the larger spacing.
ToleranceOfMax(ddx, ddy) == (IF ddx >= ddy THEN ddx ELSE ddy) \div 2

\* TOLERANCE = np.min([dx, dy]) / 2.0
TOLERANCE(ddx, ddy) == Min(ddx, ddy) \div 2

\* RoundXY rounding all three columns, Z included.
RoundXYZ(nodes, tol) ==
    [k \in DOMAIN nodes |->
        <<Around(nodes[k][1], tol), Around(nodes[k][2], tol),
          Around(nodes[k][3], tol)>>]

\* all_nodes[:,0:2] = np.around(all_nodes[:,0:2] / TOLERANCE); Z is left as it is.
RoundXY(nodes, tol) ==
    [k \in DOMAIN nodes |->
        <<Around(nodes[k][1], tol), Around(nodes[k][2], tol), nodes[k][3]>>]

\* The row order of np.unique(axis=0): lexicographic.
RowLess(a, b) ==
    \/ a[1] < b[1]
    \/ a[1] = b[1] /\ a[2] < b[2]
    \/ a[1] = b[1] /\ a[2] = b[2] /\ a[3] < b[3]

\* np.unique(rows, return_inverse=True, axis=0): the sorted distinct rows, and
\* for every input row the index of its row among them.
Unique(rows) ==
    LET S == {rows[k] : k \in DOMAIN rows}
        Rank == [r \in S |-> Cardinality({s \in S : RowLess(s, r)})]
    IN  [unique_nodes |-> [i \in 0..(Cardinality(S) - 1) |->
                              CHOOSE r \in S : Rank[r] = i],
         ind_nodes    |-> [k \in DOMAIN rows |-> Rank[rows[k]]]]

\* Rescale forgotten: the rounded quotients are left as the coordinates.
RescaleForgotten(nodes, tol) == nodes

\* unique_nodes[:,0:2] *= TOLERANCE
Rescale(nodes, tol) ==
    [i \in DOMAIN nodes |-> <<nodes[i][1] * tol, nodes[i][2] * tol, nodes[i][3]>>]

\* RotationTool.Rotate: a rotation about the origin, the angle in quarter turns.
Rotate(p, a) ==
    LET t == a % 4
    IN  IF t = 0 THEN p
        ELSE IF t = 1 THEN <<-p[2], p[1]>>
        ELSE IF t = 2 THEN <<-p[1], -p[2]>>
        ELSE <<p[2], -p[1]>>

\* unique_nodes[:,0:2] = RotationTool.Rotate(unique_nodes[:,0:2], -self.__angle)
RotateNodes(nodes, a) ==
    [i \in DOMAIN nodes |->
        LET q == Rotate(<<nodes[i][1], nodes[i][2]>>, a)
        IN  <<q[1], q[2], nodes[i][3]>>]

\* MakeCells reading ind_nodes point-major (i*8 + j) instead of corner-major.
MakeCellsPointMajor(ind_nodes, numCells) ==
    [i \in 0..(numCells - 1) |-> [j \in 0..7 |-> ind_nodes[i * 8 + j]]]

\* The loop that fills the vtkVoxel of each point from ind_nodes.
MakeCells(ind_nodes, numCells) ==
    [i \in 0..(numCells - 1) |-> [j \in 0..7 |-> ind_nodes[j * numCells + i]]]

\* RotationTool.EstimateAndRotate, by its contract: the cloud turned by the
\* angle it found, and the spacings it found; e is what it found.
EstimateAndRotate(x, y, z, e) ==
    [x     |-> [i \in 1..Len(x) |-> Rotate(<<x[i], y[i]>>, e.angle)[1]],
     y     |-> [i \in 1..Len(x) |-> Rotate(<<x[i], y[i]>>, e.angle)[2]],
     z     |-> z,
     dx    |-> e.dx,
     dy    |-> e.dy,
     angle |-> e.angle]

\* np.average(np.diff(np.unique(z))), or the safe size when z has one value.
RECURSIVE SumSeq(_)
SumSeq(s) == IF s = <<>> THEN 0 ELSE s[1] + SumSeq(Tail(s))

EstimateDz(z, sf) ==
    LET S   == {z[i] : i \in 1..Len(z)}
        u   == [i \in 1..Cardinality(S) |->
                   CHOOSE v \in S : Cardinality({w \in S : w < v}) = i - 1]
        uz  == [i \in 1..(Cardinality(S) - 1) |-> u[i + 1] - u[i]]
    IN  IF Len(uz) > 0 THEN SumSeq(uz) \div Len(uz) ELSE sf

\* The instance fields as one record.
Cfg == [dx |-> dx, dy |-> dy, dz |-> dz, estimateGrid |-> estimateGrid,
        safe |-> safe, angle |-> angle]

\* EstimateUniformSpacing with an assertion that forgets z.
EstimateUniformSpacingXY(cfg, x, y, z, e) ==
    IF ~(Len(x) = Len(y))
    THEN [exc |-> "AssertionError", ret |-> <<>>, cfg |-> cfg]
    ELSE IF Len(x) = 1
    THEN [exc |-> "none",
          ret |-> <<x, y, z, cfg.safe, cfg.safe, cfg.safe, 0>>,
          cfg |-> cfg]
    ELSE [exc |-> "none",
          ret |-> <<EstimateAndRotate(x, y, z, e).x,
                    EstimateAndRotate(x, y, z, e).y, z>>,
          cfg |-> [cfg EXCEPT !.angle = e.angle, !.dx = e.dx, !.dy = e.dy,
                              !.dz = EstimateDz(z, cfg.safe)]]

\* EstimateUniformSpacing(x, y, z): exc is the exception it raises, ret the
\* tuple it returns, cfg the fields after it.
EstimateUniformSpacing(cfg, x, y, z, e) ==
    IF ~(Len(x) = Len(y) /\ Len(y) = Len(z))
    THEN [exc |-> "AssertionError", ret |-> <<>>, cfg |-> cfg]
    ELSE IF Len(x) = 1
    THEN [exc |-> "none",
          ret |-> <<x, y, z, cfg.safe, cfg.safe, cfg.safe, 0>>,
          cfg |-> cfg]
    ELSE LET r   == EstimateAndRotate(x, y, z, e)
             edz == EstimateDz(z, cfg.safe)
         IN  [exc |-> "none",
              ret |-> <<r.x, r.y, r.z>>,
              cfg |-> [cfg EXCEPT !.angle = r.angle, !.dx = r.dx,
                                  !.dy = r.dy, !.dz = edz]]

\* checkNumpy(): the NumPy at hand is 1.10 or later.
checkNumpy == TRUE

\* vtk.vtkUnstructuredGrid(): no points, no cells, no field data.
EmptyGrid == [points |-> <<>>, cells |-> <<>>, field |-> <<>>]

\* AddFieldData: 'Recovered Angle (Deg.)' and 'Recovered Cell Sizes'.
AddFieldData(cfg) == <<90 * cfg.angle, cfg.dx, cfg.dy, cfg.dz>>

\* What PointsToGrid leaves behind when it raises exception exc.
Raise(exc, cfg) ==
    [exc |-> exc, cfg |-> cfg, grid |-> EmptyGrid,
     dx |-> None, dy |-> None, dz |-> None,
     ind_nodes |-> <<>>, unique_nodes |-> <<>>]

\* Lines 136-165: the points and the cells of the mesh, from the node pool u.
FillGrid(cfg, numCells, tol, u) ==
    [exc  |-> "none",
     cfg  |-> cfg,
     grid |-> [points |-> IF cfg.estimateGrid
                          THEN RotateNodes(Rescale(u.unique_nodes, tol), -cfg.angle)
                          ELSE Rescale(u.unique_nodes, tol),
               cells  |-> MakeCells(u.ind_nodes, numCells),
               field  |-> IF cfg.estimateGrid THEN AddFieldData(cfg) ELSE <<>>],
     dx |-> cfg.dx, dy |-> cfg.dy, dz |-> cfg.dz,
     ind_nodes    |-> u.ind_nodes,
     unique_nodes |-> Rescale(u.unique_nodes, tol)]

\* Lines 100-134: dx, dy, dz are read from the fields, whatever the arguments
\* were; the corners are built, rounded and made unique.
BuildGrid(cfg, x, y, z) ==
    IF cfg.dx = None \/ cfg.dy = None \/ cfg.dz = None
    THEN Raise("TypeError", cfg)
    ELSE IF ~(Len(x) = Len(y) /\ Len(y) = Len(z))
    THEN Raise("ValueError", cfg)
    ELSE FillGrid(cfg, Len(x), TOLERANCE(cfg.dx, cfg.dy),
                  Unique(RoundXY(AllNodes(x, y, z, cfg.dx, cfg.dy, cfg.dz),
                                 TOLERANCE(cfg.dx, cfg.dy))))

\* Line 96: x, y, z = self.EstimateUniformSpacing(xo, yo, zo).
Unpack(r) ==
    IF r.exc # "none" THEN Raise(r.exc, r.cfg)
    ELSE IF Len(r.ret) # 3 THEN Raise("ValueError", r.cfg)
    ELSE BuildGrid(r.cfg, r.ret[1], r.ret[2], r.ret[3])

\* PointsToGrid(xo, yo, zo, dx, dy, dz, grid); e is what the estimator finds
\* when it is asked.  The arguments dx, dy, dz are overwritten at line 100
\* before they are read, so the outcome is no function of them.
PointsToGridRun(cfg, xo, yo, zo, e) ==
    IF ~checkNumpy THEN Raise("RuntimeError", cfg)
    ELSE IF cfg.estimateGrid
    THEN Unpack(EstimateUniformSpacing(cfg, xo, yo, zo, e))
    ELSE BuildGrid(cfg, xo, yo, zo)

\* -------------------------------------------------------------- state
NoMemo == [op |-> "none"]

Init ==
    /\ dx = None
    /\ dy = None
    /\ dz = None
    /\ estimateGrid = TRUE
    /\ safe = DefaultSafe
    /\ angle = 0
    /\ last = [op |-> "init"]
    /\ memo = NoMemo

\* ------------------------------------------------------------ setters
SetSafeSize(v) ==
    /\ safe' = v
    /\ last' = [op |-> "SetSafeSize", arg |-> <<v>>]
    /\ UNCHANGED <<dx, dy, dz, estimateGrid, angle, memo>>

SetDeltaX(v) ==
    /\ dx' = v
    /\ last' = [op |-> "SetDeltaX", arg |-> <<v>>]
    /\ UNCHANGED <<dy, dz, estimateGrid, safe, angle, memo>>

SetDeltaY(v) ==
    /\ dy' = v
    /\ last' = [op |-> "SetDeltaY", arg |-> <<v>>]
    /\ UNCHANGED <<dx, dz, estimateGrid, safe, angle, memo>>

\* SetDeltaZ without its call of SetSafeSize.
SetDeltaZOnly(v) ==
    /\ dz' = v
    /\ last' = [op |-> "SetDeltaZ", arg |-> <<v>>]
    /\ UNCHANGED <<dx, dy, estimateGrid, safe, angle, memo>>

\* SetDeltaZ sets the field and calls SetSafeSize(dz).
SetDeltaZ(v) ==
    /\ dz' = v
    /\ safe' = v
    /\ last' = [op |-> "SetDeltaZ", arg |-> <<v>>]
    /\ UNCHANGED <<dx, dy, estimateGrid, angle, memo>>

\* SetDeltas calls SetDeltaX, SetDeltaY and SetDeltaZ.
SetDeltas(vx, vy, vz) ==
    /\ dx' = vx
    /\ dy' = vy
    /\ dz' = vz
    /\ safe' = vz
    /\ last' = [op |-> "SetDeltas", arg |-> <<vx, vy, vz>>]
    /\ UNCHANGED <<estimateGrid, angle, memo>>

SetEstimateGrid(flag) ==
    /\ estimateGrid' = flag
    /\ last' = [op |-> "SetEstimateGrid", arg |-> <<flag>>]
    /\ UNCHANGED <<dx, dy, dz, safe, angle, memo>>

Setter ==
    \/ \E v \in SafeVals : SetSafeSize(v)
    \/ \E v \in DeltaVals : SetDeltaX(v)
    \/ \E v \in DeltaVals : SetDeltaY(v)
    \/ \E v \in DeltaVals : SetDeltaZ(v)
    \/ \E a \in ArgDeltas : SetDeltas(a[1], a[2], a[3])
    \/ \E f \in BOOLEAN : SetEstimateGrid(f)

\* -------------------------------------------------------- PointsToGrid
\* The estimator is asked only for more than one point of equal-length input.
AsksEstimator(xo, yo, zo) ==
    estimateGrid /\ Len(xo) = Len(yo) /\ Len(yo) = Len(zo) /\ Len(xo) > 1

NoEstimate == [dx |-> None, dy |-> None, angle |-> 0]

EstimatesFor(xo, yo, zo) ==
    IF AsksEstimator(xo, yo, zo) THEN Estimates ELSE {NoEstimate}

\* The state after a call whose outcome is r.  The mesh is the one the caller
\* passed, or the one line 92 makes: empty either way when the call starts.
Commit(r, xo, yo, zo, args, e) ==
    /\ dx' = r.cfg.dx
    /\ dy' = r.cfg.dy
    /\ dz' = r.cfg.dz
    /\ angle' = r.cfg.angle
    /\ safe' = r.cfg.safe
    /\ estimateGrid' = r.cfg.estimateGrid
    /\ last' = [op |-> "PointsToGrid", xo |-> xo, yo |-> yo, zo |-> zo,
                args |-> args, estimate |-> estimateGrid, e |-> e,
                exc |-> r.exc, dx |-> r.dx, dy |-> r.dy, dz |-> r.dz,
                ind_nodes |-> r.ind_nodes, unique_nodes |-> r.unique_nodes,
                grid |-> r.grid]
    /\ UNCHANGED memo

PointsToGrid(xo, yo, zo, args, e) ==
    Commit(PointsToGridRun(Cfg, xo, yo, zo, e), xo, yo, zo, args, e)

\* A call on the equal-length x, y, z of a cloud.
CallOn(pts) ==
    \E args \in CallArgs :
        \E e \in EstimatesFor(Coord(pts, 1), Coord(pts, 2), Coord(pts, 3)) :
            PointsToGrid(Coord(pts, 1), Coord(pts, 2), Coord(pts, 3), args, e)

\* A call on x, y, z of which one is shorter than the others.
CallShort(pts, short) ==
    \E args \in CallArgs :
        PointsToGrid(IF short = 1 THEN Trim(Coord(pts, 1)) ELSE Coord(pts, 1),
                     IF short = 2 THEN Trim(Coord(pts, 2)) ELSE Coord(pts, 2),
                     IF short = 3 THEN Trim(Coord(pts, 3)) ELSE Coord(pts, 3),
                     args, NoEstimate)

CallEqual == \E pts \in Clouds : CallOn(pts)

\* One of x, y, z is an element short of the other two, which hold MaxN.
CallUnequal ==
    \E pts \in {c \in Clouds : Len(c) = MaxN}, short \in 1..3 :
        CallShort(pts, short)

Next ==
    \/ Setter
    \/ CallEqual
    \/ CallUnequal

Spec == Init /\ [][Next]_vars

\* The lattice and the cluster in place of the enumerated clouds.
CallLattice == CallOn(Lattice)

CallCluster == CallOn(Cluster)

NextLarge ==
    \/ Setter
    \/ CallLattice
    \/ CallCluster

SpecLarge == Init /\ [][NextLarge]_vars

\* One cloud called again and again, the caller keeping an earlier outcome.
Probe == << <<0, 0, 0>>, <<1, 0, 4>> >>

CallProbe == CallOn(Probe)

\* The caller keeps the mesh a successful call without estimation returned.
Keep ==
    /\ last.op = "PointsToGrid"
    /\ last.exc = "none"
    /\ ~last.estimate
    /\ memo = NoMemo
    /\ memo' = last
    /\ UNCHANGED <<dx, dy, dz, estimateGrid, safe, angle, last>>

NextRepeat ==
    \/ Setter
    \/ CallProbe
    \/ Keep

SpecRepeat == Init /\ [][NextRepeat]_vars

\* ------------------------------------------------------------- claims
IsCall == last.op = "PointsToGrid"

Ok == IsCall /\ last.exc = "none"

EqualLengths(c) == Len(c.xo) = Len(c.yo) /\ Len(c.yo) = Len(c.zo)

\* The coordinates the corners of the last call were built around.
UsedX == IF last.estimate
         THEN EstimateAndRotate(last.xo, last.yo, last.zo, last.e).x ELSE last.xo

UsedY == IF last.estimate
         THEN EstimateAndRotate(last.xo, last.yo, last.zo, last.e).y ELSE last.yo

\* The corner candidates of the last call, before rounding.
Candidates == AllNodes(UsedX, UsedY, last.zo, last.dx, last.dy, last.dz)

Abs(v) == IF v < 0 THEN -v ELSE v

\* min(dx, dy)/2 of the spacing the last call used.
Tol == Min(last.dx, last.dy) \div 2

NumPool == Cardinality(DOMAIN last.grid.points)

\* C1: a successful call on N points leaves N cells in input order; slot j of
\* cell i holds the pool index candidate j*N + i resolved to, that index is a
\* valid pool index, and the pool node there is the snapped corner j of point i.
C1_CellsFollowCandidates ==
    Ok =>
        LET n == Len(last.xo)
        IN  /\ DOMAIN last.grid.cells = 0..(n - 1)
            /\ \A i \in 0..(n - 1), j \in 0..7 :
                 LET id == last.grid.cells[i][j]
                     c  == Candidates[j * n + i]
                 IN  /\ id = last.ind_nodes[j * n + i]
                     /\ id \in 0..(NumPool - 1)
                     /\ c = << UsedX[i + 1] + CornerSign[j][1] * (last.dx \div 2),
                               UsedY[i + 1] + CornerSign[j][2] * (last.dy \div 2),
                               last.zo[i + 1] + CornerSign[j][3] * (last.dz \div 2) >>
                     /\ last.unique_nodes[id] =
                            << Tol * Around(c[1], Tol), Tol * Around(c[2], Tol), c[3] >>

C1_Witness ==
    /\ Ok
    /\ Len(last.xo) = 2
    /\ last.grid.cells[0] # last.grid.cells[1]
    /\ \E k \in DOMAIN last.ind_nodes : last.ind_nodes[k] # k

\* The final node of slot j of cell i of the last call.
NodeOf(i, j) == last.grid.points[last.grid.cells[i][j]]

\* The exact corner j of point i for the spacing the last call used.
CornerOf(i, j) ==
    << last.xo[i + 1] + CornerSign[j][1] * (last.dx \div 2),
       last.yo[i + 1] + CornerSign[j][2] * (last.dy \div 2),
       last.zo[i + 1] + CornerSign[j][3] * (last.dz \div 2) >>

\* C2 as stated: without estimation every cell is centred on its point with
\* extents exactly (dx, dy, dz): its 8 final nodes are the exact corners.
C2_CellCentredOnPoint ==
    (Ok /\ ~last.estimate) =>
        \A i \in 0..(Len(last.xo) - 1), j \in 0..7 : NodeOf(i, j) = CornerOf(i, j)

\* C2 amended: without estimation the X and Y of every final node are the
\* multiples of the tolerance nearest to the exact corner (at most half a
\* tolerance away, and the corner itself when that is a multiple of the
\* tolerance), and its Z is the exact z -/+ dz/2; dx, dy, dz are the spacing
\* configured on the instance.
C2_CellSnappedToTolerance ==
    (Ok /\ ~last.estimate) =>
        /\ <<last.dx, last.dy, last.dz>> = <<dx, dy, dz>>
        /\ \A i \in 0..(Len(last.xo) - 1), j \in 0..7 :
             LET nd == NodeOf(i, j)
                 c  == CornerOf(i, j)
             IN  /\ nd[1] % Tol = 0
                 /\ nd[2] % Tol = 0
                 /\ 2 * Abs(nd[1] - c[1]) <= Tol
                 /\ 2 * Abs(nd[2] - c[2]) <= Tol
                 /\ nd[3] = c[3]
                 /\ (c[1] % Tol = 0 /\ c[2] % Tol = 0) => nd = c

\* A cell whose corner was moved by the snap: it is not centred on its point.
C2_Witness ==
    /\ Ok
    /\ ~last.estimate
    /\ \E i \in 0..(Len(last.xo) - 1) :
         /\ NodeOf(i, 0)[1] + NodeOf(i, 1)[1] # 2 * last.xo[i + 1]
         /\ CornerOf(i, 0)[1] % Tol # 0

\* Two candidates of the last call with equal Z.
EqualZPairs ==
    {p \in (DOMAIN Candidates) \X (DOMAIN Candidates) :
        Candidates[p[1]][3] = Candidates[p[2]][3]}

\* C3 as stated: of two candidates with equal Z, those whose X and Y each
\* differ by less than the tolerance share a pool index, and those whose X or Y
\* differ by more than the tolerance do not.
C3_ToleranceDecidesMerge ==
    Ok =>
        \A p \in EqualZPairs :
            LET a == Candidates[p[1]]
                b == Candidates[p[2]]
            IN  /\ (Abs(a[1] - b[1]) < Tol /\ Abs(a[2] - b[2]) < Tol)
                       => last.ind_nodes[p[1]] = last.ind_nodes[p[2]]
                /\ (Abs(a[1] - b[1]) > Tol \/ Abs(a[2] - b[2]) > Tol)
                       => last.ind_nodes[p[1]] # last.ind_nodes[p[2]]

\* C3 amended: two candidates with equal Z share a pool index exactly when
\* their X and their Y round (half to even) to the same multiple of
\* min(dx, dy)/2; so they do not when X or Y differ by more than that
\* tolerance, and a difference below it does not make them merge.
C3_RoundingDecidesMerge ==
    Ok =>
        \A p \in EqualZPairs :
            LET a == Candidates[p[1]]
                b == Candidates[p[2]]
                t == Min(last.dx, last.dy) \div 2
            IN  /\ (last.ind_nodes[p[1]] = last.ind_nodes[p[2]])
                       <=> (/\ Around(a[1], t) = Around(b[1], t)
                            /\ Around(a[2], t) = Around(b[2], t))
                /\ (Abs(a[1] - b[1]) > t \/ Abs(a[2] - b[2]) > t)
                       => last.ind_nodes[p[1]] # last.ind_nodes[p[2]]

\* Two candidates with equal Z closer than the tolerance in X and in Y that
\* did not merge.
C3_Witness ==
    /\ Ok
    /\ \E p \in EqualZPairs :
         /\ Abs(Candidates[p[1]][1] - Candidates[p[2]][1]) < Tol
         /\ Abs(Candidates[p[1]][2] - Candidates[p[2]][2]) < Tol
         /\ last.ind_nodes[p[1]] # last.ind_nodes[p[2]]

NumCells == Cardinality(DOMAIN last.grid.cells)

\* C5 as stated: with estimation enabled a call on a single point succeeds,
\* leaves one cube of the safe size centred on the point, the metadata
\* (angle 0, sizes safe) and the stored dx, dy, dz, angle = (safe, safe, safe, 0).
C5_SinglePointCube ==
    (IsCall /\ last.estimate /\ EqualLengths(last) /\ Len(last.xo) = 1) =>
        /\ last.exc = "none"
        /\ NumCells = 1
        /\ \A j \in 0..7 :
             NodeOf(0, j) =
                << last.xo[1] + CornerSign[j][1] * (safe \div 2),
                   last.yo[1] + CornerSign[j][2] * (safe \div 2),
                   last.zo[1] + CornerSign[j][3] * (safe \div 2) >>
        /\ last.grid.field = <<0, safe, safe, safe>>
        /\ <<dx, dy, dz, angle>> = <<safe, safe, safe, 0>>

\* C6 as stated: with the estimate flag false a successful call builds the
\* corners from the dx, dy, dz it was passed, and turns nothing.
C6_ArgumentsUsedVerbatim ==
    (Ok /\ ~last.estimate) =>
        /\ <<last.dx, last.dy, last.dz>> = last.args
        /\ last.grid.points =
               Rescale(Unique(RoundXY(AllNodes(last.xo, last.yo, last.zo,
                                               last.args[1], last.args[2],
                                               last.args[3]),
                                      Min(last.args[1], last.args[2]) \div 2)
                             ).unique_nodes,
                       Min(last.args[1], last.args[2]) \div 2)

\* C7: a call on x, y, z of unequal lengths raises, hands back no mesh, leaves
\* the mesh it was given without points and cells, and leaves dx, dy, dz,
\* angle, safe size and estimate flag as they were.
C7_UnequalLengthsRejected ==
    [][(last'.op = "PointsToGrid" /\ ~EqualLengths(last')) =>
          /\ last'.exc \in {"AssertionError", "ValueError", "TypeError"}
          /\ last'.grid = EmptyGrid
          /\ <<dx, dy, dz, angle, safe, estimateGrid>>'
                 = <<dx, dy, dz, angle, safe, estimateGrid>>]_vars

\* A rejected call on unequal lengths, with estimation on and spacing set.
C7_Witness ==
    /\ IsCall
    /\ ~EqualLengths(last)
    /\ last.estimate
    /\ Len(last.xo) > 1
    /\ last.exc = "AssertionError"
    /\ dx # None

\* C10: right after SetDeltaZ(v), alone or through SetDeltas, safe size and
\* delta-z are v; SetDeltaX, SetDeltaY and SetEstimateGrid leave the safe
\* size alone, and SetSafeSize leaves delta-x, delta-y, delta-z alone.
C10_DeltaZResetsSafe ==
    [][/\ last'.op = "SetDeltaZ"
            => (safe' = last'.arg[1] /\ dz' = last'.arg[1])
       /\ last'.op = "SetDeltas"
            => (safe' = last'.arg[3] /\ dz' = last'.arg[3])
       /\ last'.op \in {"SetDeltaX", "SetDeltaY", "SetEstimateGrid"}
            => safe' = safe
       /\ last'.op = "SetSafeSize"
            => <<dx, dy, dz>>' = <<dx, dy, dz>>]_vars

\* SetDeltaZ has just replaced a different safe size.
C10_Witness ==
    /\ last.op = "SetDeltaZ"
    /\ safe = last.arg[1]
    /\ dz = last.arg[1]
    /\ safe # DefaultSafe

\* The last call was made on the lattice with estimation on, and the
\* estimator found angle 0 and spacing 2, 2.
LatticeCall ==
    /\ IsCall
    /\ last.estimate
    /\ <<last.xo, last.yo, last.zo>>
           = <<Coord(Lattice, 1), Coord(Lattice, 2), Coord(Lattice, 3)>>
    /\ last.e = [dx |-> 2, dy |-> 2, angle |-> 0]

\* Cells of lattice points one spacing apart along x or along y.
LatticeAdjacent ==
    {p \in (0..8) \X (0..8) :
        Abs(Lattice[p[1] + 1][1] - Lattice[p[2] + 1][1])
          + Abs(Lattice[p[1] + 1][2] - Lattice[p[2] + 1][2]) = 2}

SharedNodes(i, k) ==
    {last.grid.cells[i][j] : j \in 0..7} \cap {last.grid.cells[k][j] : j \in 0..7}

\* C4 as stated: the lattice gives 9 cells, a pool of 16 nodes, and 4 shared
\* node indices for every pair of adjacent cells.
C4_LatticeSixteenNodes ==
    LatticeCall =>
        /\ last.exc = "none"
        /\ NumCells = 9
        /\ NumPool = 16
        /\ \A p \in LatticeAdjacent : Cardinality(SharedNodes(p[1], p[2])) = 4

\* C4 amended: the lattice gives 9 cells, a pool of 32 nodes (the 4 x 4 grid
\* at z - dz/2 and again at z + dz/2), and 4 shared node indices for every
\* pair of adjacent cells.
C4_LatticeThirtyTwoNodes ==
    LatticeCall =>
        /\ last.exc = "none"
        /\ NumCells = 9
        /\ NumPool = 32
        /\ \A p \in LatticeAdjacent : Cardinality(SharedNodes(p[1], p[2])) = 4

C4_Witness ==
    /\ LatticeCall
    /\ last.exc = "none"
    /\ <<last.dx, last.dy>> = <<2, 2>>
    /\ last.grid.field[1] = 0
    /\ Cardinality(SharedNodes(0, 1)) = 4

\* The points of the last call are pairwise distinct.
DistinctPoints ==
    \A i, k \in 1..Len(last.xo) :
        i # k => <<last.xo[i], last.yo[i], last.zo[i]>>
                   # <<last.xo[k], last.yo[k], last.zo[k]>>

\* C9 as stated: N > 1 pairwise distinct points give between N + 1 and 8N
\* unique nodes.
C9_PoolAtLeastNPlusOne ==
    (Ok /\ Len(last.xo) > 1 /\ DistinctPoints) =>
        (Len(last.xo) + 1 <= NumPool /\ NumPool <= 8 * Len(last.xo))

\* C9 amended: N > 1 pairwise distinct points give between 8 and 8N unique
\* nodes (so at least N + 1 only while N < 8).
C9_PoolAtLeastEight ==
    (Ok /\ Len(last.xo) > 1 /\ DistinctPoints) =>
        (8 <= NumPool /\ NumPool <= 8 * Len(last.xo))

\* Nine distinct points that all snapped onto the 8 nodes of one cell.
C9_Witness ==
    /\ Ok
    /\ DistinctPoints
    /\ Len(last.xo) = 9
    /\ NumPool = 8

\* C8 as stated: with the estimate flag false, a call with the x, y, z, dx,
\* dy, dz of an earlier call returns the nodes and the cells the earlier call
\* returned.
C8_SameArgumentsSameMesh ==
    (/\ memo # NoMemo
     /\ Ok
     /\ ~last.estimate
     /\ <<last.xo, last.yo, last.zo, last.args>>
            = <<memo.xo, memo.yo, memo.zo, memo.args>>)
        => (/\ last.grid.points = memo.grid.points
            /\ last.grid.cells = memo.grid.cells)

====
